---- MODULE Spec2Model ----
(***************************************************************************)
(* Model of src/main.py: TwitterBot.setup_hook, TwitterCog.cog_load and    *)
(* the check_tweets task loop with its helpers.                            *)
(*                                                                         *)
(* The watched account's posts carry the identifiers 1..n (identifiers     *)
(* grow with time).  Every await of the source is a step boundary.  The     *)
(* program sees the account only through get_users_tweets, so the account  *)
(* publishes while the task is between two runs of the check_tweets body.  *)
(* Locals of a function that has returned, and locals that are not read    *)
(* again, are reset to their initial values.                               *)
(***************************************************************************)
EXTENDS Integers, Sequences, FiniteSets, TLC

\* ---- bounds of the model ------------------------------------------------
MaxPosts == 7        \* posts the account publishes during a behaviour
MaxFaults == 1       \* failed sends, failed saves and crashes during a behaviour
MaxId == 120         \* identifiers whose JSON text is written and read back

\* ---- program constants --------------------------------------------------
None == 0                        \* Python None for an optional identifier
max_retries == 4                 \* cog_load
max_results == 5                 \* page size of get_users_tweets
CHECK_INTERVAL_SECONDS == 300    \* default of CHECK_INTERVAL
COOLDOWN_SECONDS == 900          \* change_interval(minutes=15)

VARIABLES
    pc,               \* position of the process (see PcValues)
    n,                \* upstream: the account's posts are 1..n
    http_session,     \* bot.http_session: "none" | "open" | "closed"
    closes,           \* calls of http_session.close() by this process
    bot_closed,       \* bot.close() has been called
    attempt,          \* cog_load: loop variable of range(max_retries)
    wait_time,        \* cog_load: last value given to asyncio.sleep
    twitter_user_id,  \* None or the resolved identity (1)
    loaded,           \* _load_last_tweet_id has returned in cog_load
    last_tweet_id,    \* in-memory watermark, None or a post id
    file,             \* STATE_FILE: [st: "missing"|"unreadable"|"file", text]
    loop,             \* check_tweets task: "stopped"|"running"|"failed"
    interval,         \* seconds of the tasks.loop
    lastWait,         \* interval in force when the loop last began to wait
    new_tweets,       \* check_tweets: sorted batch
    i,                \* check_tweets: index of the current tweet
    response,         \* what the summarizer endpoint answered last
    summary,          \* check_tweets: result of _summarize_tweet
    description,      \* body of the embed built for the current tweet
    sent,             \* messages sent to the channel by this process
    cycleStart,       \* [len, wm, file] snapshot taken when a cycle starts
    outcome,          \* how the latest cycle ended
    faults,           \* failed sends / saves so far
    lastSave,         \* latest _save_last_tweet_id call: [ok, id]
    lastStored,       \* the id that the latest successful save wrote, or
                      \* None (kept across a restart)
    pending           \* posts of its batch that the latest crashed process
                      \* had not fully delivered, kept until the next
                      \* process has fetched

vars == <<pc, n, http_session, closes, bot_closed, attempt, wait_time,
          twitter_user_id, loaded, last_tweet_id, file, loop, interval,
          lastWait, new_tweets, i, response, summary, description, sent,
          cycleStart, outcome, faults, lastSave, lastStored, pending>>

startupVars == <<http_session, closes, bot_closed, attempt, wait_time,
                 twitter_user_id, loaded>>
storeVars == <<last_tweet_id, file, lastSave, lastStored>>
loopVars == <<loop, interval, lastWait>>
batchVars == <<new_tweets, i, response, summary, description>>

PcValues == {"boot", "resolve", "resolve_sleep", "load", "halted",
             "idle", "fetch", "rl_sleep", "summarize", "send_embed",
             "send_url", "save", "post_sleep", "backoff", "failed",
             "load_failed", "unloaded", "crashed"}

\* ---- pure helpers -------------------------------------------------------

Range(s) == {s[k] : k \in 1..Len(s)}

\* all orderings of a finite set, as sequences
Perms(S) == {s \in [1..Cardinality(S) -> S] : Range(s) = S}

\* variant of sorted: the fetch result is used in the order received
sorted_unsorted(s) == s

\* sorted(tweets_resp.data, key=lambda t: t.id)
RECURSIVE sorted(_)
sorted(s) ==
    IF s = <<>> THEN <<>>
    ELSE LET m == CHOOSE x \in Range(s) : \A y \in Range(s) : x <= y
             k == CHOOSE j \in 1..Len(s) : s[j] = m
             rest == [j \in 1..(Len(s) - 1) |-> IF j < k THEN s[j] ELSE s[j + 1]]
         IN <<m>> \o sorted(rest)

\* variant of get_users_tweets: since_id is inclusive
get_users_tweets_inclusive(since_id, upto) ==
    LET newer == {p \in 1..upto : since_id = None \/ p >= since_id}
    IN {p \in newer : Cardinality({q \in newer : q > p}) < max_results}

\* get_users_tweets(since_id=..., max_results=5): the most recent
\* max_results posts strictly newer than since_id (all recent posts when
\* since_id is None)
get_users_tweets(since_id, upto) ==
    LET newer == {p \in 1..upto : since_id = None \/ p > since_id}
    IN {p \in newer : Cardinality({q \in newer : q > p}) < max_results}

\* JSON text is a sequence of tokens: punctuation, the key, decimal digits
DigitChar == <<"0", "1", "2", "3", "4", "5", "6", "7", "8", "9">>

\* decimal digits of a natural number, most significant first
RECURSIVE ToDigits(_)
ToDigits(v) ==
    IF v < 10 THEN <<DigitChar[v + 1]>>
    ELSE ToDigits(v \div 10) \o <<DigitChar[(v % 10) + 1]>>

IsDigits(ds) == ds # <<>> /\ \A k \in 1..Len(ds) : ds[k] \in Range(DigitChar)

\* the number written by a sequence of decimal digits
RECURSIVE FromDigits(_)
FromDigits(ds) ==
    IF ds = <<>> THEN 0
    ELSE 10 * FromDigits(SubSeq(ds, 1, Len(ds) - 1))
         + (CHOOSE d \in 0..9 : DigitChar[d + 1] = ds[Len(ds)])

\* variant of Dumps: the record is written under another key
Dumps_other_key(tweet_id) ==
    <<"{", "tweet_id", ":">> \o ToDigits(tweet_id) \o <<"}">>

\* json.dumps({"last_tweet_id": tweet_id})
Dumps(tweet_id) ==
    <<"{", "last_tweet_id", ":">> \o ToDigits(tweet_id) \o <<"}">>

\* json.loads(content) followed by data.get("last_tweet_id"): kind "object"
\* with the value found (None when the key is missing), kind "list" for a
\* JSON value without .get, kind "error" for json.JSONDecodeError
Loads(text) ==
    IF /\ Len(text) >= 5
       /\ SubSeq(text, 1, 3) = <<"{", "last_tweet_id", ":">>
       /\ text[Len(text)] = "}"
       /\ IsDigits(SubSeq(text, 4, Len(text) - 1))
      THEN [kind |-> "object", value |-> FromDigits(SubSeq(text, 4, Len(text) - 1))]
    ELSE IF text = <<"{", "}">> THEN [kind |-> "object", value |-> None]
    ELSE IF text = <<"[", "]">> THEN [kind |-> "list", value |-> None]
    ELSE [kind |-> "error", value |-> None]

\* states of STATE_FILE
Written(text) == [st |-> "file", text |-> text]
MissingFile == [st |-> "missing", text |-> <<>>]
UnreadableFile == [st |-> "unreadable", text |-> <<>>]
EmptyFile == Written(<<>>)

\* what a write that fails part-way leaves of the text
Partial(text) == SubSeq(text, 1, Len(text) - 1)

\* _load_last_tweet_id leaves with an exception that it does not catch
\* (AttributeError of data.get on a JSON value that is not an object)
load_raises(f) == f.st = "file" /\ Loads(f.text).kind = "list"

\* _load_last_tweet_id on a given file: the value it returns
load_last_tweet_id(f) ==
    IF f.st = "missing" THEN None          \* not os.path.exists
    ELSE IF f.st = "unreadable" THEN None  \* IOError caught
    ELSE IF Loads(f.text).kind = "error" THEN None   \* JSONDecodeError caught
    ELSE Loads(f.text).value               \* data.get("last_tweet_id")

\* the file holds a watermark that _load_last_tweet_id returns
HoldsWatermark(f) == ~load_raises(f) /\ load_last_tweet_id(f) # None

\* state files the process may find when it first starts
InitialFiles == {MissingFile, UnreadableFile, EmptyFile,
                 Written(<<"{", "}">>), Written(<<"[", "]">>)}

\* answers of the summarizer endpoint
Responses == {"good", "blank", "status500", "ClientError", "TimeoutError",
              "incomplete"}

\* _summarize_tweet: the returned value ("ok" a text, "empty" the empty
\* string, "none" None) or the name of the exception that leaves it
summarize_tweet(resp) ==
    CASE resp = "good" -> "ok"                  \* content.strip()
      [] resp = "blank" -> "empty"              \* "  ".strip() = ""
      [] resp = "status500" -> "none"           \* else branch
      [] resp = "ClientError" -> "none"         \* except aiohttp.ClientError
      [] resp = "TimeoutError" -> "TimeoutError"   \* not a ClientError
      [] resp = "incomplete" -> "KeyError"      \* data["choices"] missing

Returned == {"ok", "empty", "none"}

\* discord.ext.tasks.Loop: exceptions after which the body is run again
\* (reconnect=True); any other exception ends the task
valid_exception == {"OSError", "ClientError", "TimeoutError"}

\* variant of Body: only None falls back to the text of the post
Body_none_only(sm) ==
    IF sm = "none" THEN "text" ELSE IF sm = "empty" THEN "empty" ELSE "summary"

\* summary or tweet.text
Body(sm) == IF sm \in {"none", "empty"} THEN "text" ELSE "summary"

\* both messages of post p are in the channel
Delivered(p) ==
    /\ \E k \in 1..Len(sent) : sent[k] = [id |-> p, kind |-> "embed"]
    /\ \E k \in 1..Len(sent) : sent[k] = [id |-> p, kind |-> "url"]

\* cycleStart before the first cycle of a process
NoCycle == [len |-> 0, wm |-> None, file |-> MissingFile, faults |-> 0]

\* ---- initial state ------------------------------------------------------

Init ==
    /\ pc = "boot"
    /\ n = 0
    /\ http_session = "none"
    /\ closes = 0
    /\ bot_closed = FALSE
    /\ attempt = 0
    /\ wait_time = 0
    /\ twitter_user_id = None
    /\ loaded = FALSE
    /\ last_tweet_id = None
    /\ file \in InitialFiles
    /\ loop = "stopped"
    /\ interval = CHECK_INTERVAL_SECONDS
    /\ lastWait = 0
    /\ new_tweets = <<>>
    /\ i = 0
    /\ response = "good"
    /\ summary = "none"
    /\ description = "text"
    /\ sent = <<>>
    /\ cycleStart = NoCycle
    /\ outcome = "none"
    /\ faults = 0
    /\ lastSave = [ok |-> FALSE, id |-> None]
    /\ lastStored = None
    /\ pending = {}

\* ---- environment --------------------------------------------------------

\* the watched account publishes its next post
Publish ==
    /\ pc \in {"idle", "backoff"}
    /\ n < MaxPosts
    /\ n' = n + 1
    /\ UNCHANGED <<pc, startupVars, storeVars, pending, loopVars, batchVars, sent,
                   cycleStart, outcome, faults>>

\* ---- startup ------------------------------------------------------------

\* the locals of check_tweets before the body has assigned them
FreshLocals ==
    /\ new_tweets' = <<>>
    /\ i' = 0
    /\ response' = "good"
    /\ summary' = "none"
    /\ description' = "text"

\* TwitterBot.setup_hook: create the session, add the cog (cog_load runs)
setup_hook ==
    /\ pc = "boot"
    /\ http_session' = "open"
    /\ attempt' = 0
    /\ pc' = "resolve"
    /\ UNCHANGED <<n, closes, bot_closed, wait_time, twitter_user_id,
                   loaded, storeVars, pending, loopVars, batchVars, sent, cycleStart,
                   outcome, faults>>

\* cog_load: one _get_twitter_user_id attempt that returns an id
ResolveOk ==
    /\ pc = "resolve"
    /\ attempt < max_retries
    /\ twitter_user_id' = 1
    /\ pc' = "load"
    /\ UNCHANGED <<n, http_session, closes, bot_closed, attempt, wait_time,
                   loaded, storeVars, pending, loopVars, batchVars, sent, cycleStart,
                   outcome, faults>>

\* cog_load: one attempt that returns None; asyncio.sleep(2 ** attempt * 60)
ResolveFail ==
    /\ pc = "resolve"
    /\ attempt < max_retries
    /\ twitter_user_id' = None
    /\ wait_time' = (2 ^ attempt) * 60
    /\ pc' = "resolve_sleep"
    /\ UNCHANGED <<n, http_session, closes, bot_closed, attempt, loaded,
                   storeVars, pending, loopVars, batchVars, sent, cycleStart,
                   outcome, faults>>

\* cog_load: the sleep ends, the for loop takes its next value
ResolveWake ==
    /\ pc = "resolve_sleep"
    /\ attempt' = attempt + 1
    /\ pc' = "resolve"
    /\ UNCHANGED <<n, http_session, closes, bot_closed, wait_time,
                   twitter_user_id, loaded, storeVars, pending, loopVars, batchVars, sent, cycleStart,
                   outcome, faults>>

\* variant of Halt: the session is not closed before bot.close()
Halt_keeps_session ==
    /\ pc = "resolve"
    /\ attempt = max_retries
    /\ bot_closed' = TRUE
    /\ pc' = "halted"
    /\ UNCHANGED <<n, http_session, closes, attempt, wait_time,
                   twitter_user_id, loaded, storeVars, pending, loopVars, batchVars, sent, cycleStart,
                   outcome, faults>>

\* cog_load: all retries failed; close the session, close the bot
Halt ==
    /\ pc = "resolve"
    /\ attempt = max_retries
    /\ http_session' = IF http_session = "open" THEN "closed" ELSE http_session
    /\ closes' = IF http_session = "open" THEN closes + 1 ELSE closes
    /\ bot_closed' = TRUE
    /\ pc' = "halted"
    /\ UNCHANGED <<n, attempt, wait_time, twitter_user_id, loaded,
                   storeVars, pending, loopVars, batchVars, sent, cycleStart,
                   outcome, faults>>

\* cog_load: load the watermark, then check_tweets.start(); return
LoadAndStart ==
    /\ pc = "load"
    /\ ~load_raises(file)
    /\ last_tweet_id' = load_last_tweet_id(file)
    /\ loaded' = TRUE
    /\ loop' = "running"
    /\ attempt' = 0
    /\ wait_time' = 0
    /\ pc' = "idle"
    /\ UNCHANGED <<n, http_session, closes, bot_closed, twitter_user_id,
                   file, lastSave, lastStored, pending, interval, lastWait, batchVars,
                   sent, cycleStart, outcome, faults>>

\* cog_load: _load_last_tweet_id raises; the exception leaves cog_load and
\* setup_hook, the process ends without reaching check_tweets.start()
LoadRaise ==
    /\ pc = "load"
    /\ load_raises(file)
    /\ pc' = "load_failed"
    /\ UNCHANGED <<n, startupVars, storeVars, pending, loopVars, batchVars, sent,
                   cycleStart, outcome, faults>>

\* the process ends: the memory of the task and the log of what it sent
\* are dropped
TaskGone ==
    /\ interval' = CHECK_INTERVAL_SECONDS
    /\ lastWait' = 0
    /\ FreshLocals
    /\ sent' = <<>>
    /\ cycleStart' = NoCycle
    /\ outcome' = "none"

\* cog_unload (clean shutdown of a loaded cog, between two runs of the
\* body or after the task has ended): close the session, cancel the task
cog_unload ==
    /\ pc \in {"idle", "backoff", "failed"}
    /\ http_session' = "closed"
    /\ closes' = closes + 1
    /\ loop' = "stopped"
    /\ bot_closed' = TRUE
    /\ TaskGone
    /\ pc' = "unloaded"
    /\ UNCHANGED <<n, attempt, wait_time, twitter_user_id, loaded,
                   storeVars, pending, faults>>

\* ---- check_tweets -------------------------------------------------------

Snapshot == [len |-> Len(sent), wm |-> last_tweet_id, file |-> file,
             faults |-> faults]

\* the body has returned: the task waits for the interval now in force
\* (interval is passed as it is after the step that returns)
Return(result, seconds) ==
    /\ outcome' = result
    /\ lastWait' = seconds
    /\ FreshLocals
    /\ pc' = "idle"

\* an exception leaves the body: the task retries it or ends
Raise(exc) ==
    /\ outcome' = exc
    /\ IF exc \in valid_exception
          THEN pc' = "backoff" /\ loop' = loop
          ELSE pc' = "failed" /\ loop' = "failed"

\* variant of TickNoChannel: the early return is missing
TickNoChannel_no_return ==
    /\ pc \in {"idle", "backoff"}
    /\ loop = "running"
    /\ cycleStart' = Snapshot
    /\ outcome' = "nochannel"
    /\ FreshLocals
    /\ pc' = "fetch"
    /\ UNCHANGED <<n, startupVars, storeVars, pending, loopVars, sent, faults>>

\* the task runs the body; get_channel returns None
TickNoChannel ==
    /\ pc \in {"idle", "backoff"}
    /\ loop = "running"
    /\ cycleStart' = Snapshot
    /\ Return("nochannel", interval)
    /\ UNCHANGED <<n, startupVars, storeVars, pending, loop, interval, sent, faults>>

\* the task runs the body; get_channel returns the channel
TickChannel ==
    /\ pc \in {"idle", "backoff"}
    /\ loop = "running"
    /\ cycleStart' = Snapshot
    /\ outcome' = "running"
    /\ FreshLocals
    /\ pc' = "fetch"
    /\ UNCHANGED <<n, startupVars, storeVars, pending, loopVars, sent, faults>>

\* variant of FetchOk: the result is processed in the order received
FetchOk_unsorted ==
    /\ pc = "fetch"
    /\ \E data \in Perms(get_users_tweets(last_tweet_id, n)) :
          IF data = <<>>
            THEN Return("empty", interval)
            ELSE /\ new_tweets' = data
                 /\ i' = 1
                 /\ pc' = "summarize"
                 /\ UNCHANGED <<outcome, lastWait, response, summary,
                                description>>
    /\ pending' = {}
    /\ UNCHANGED <<n, startupVars, storeVars, loop, interval, sent,
                   cycleStart, faults>>

\* get_users_tweets answers (in any order); the result is sorted
FetchOk ==
    /\ pc = "fetch"
    /\ \E data \in Perms(get_users_tweets(last_tweet_id, n)) :
          IF sorted(data) = <<>>
            THEN Return("empty", interval)
            ELSE /\ new_tweets' = sorted(data)
                 /\ i' = 1
                 /\ pc' = "summarize"
                 /\ UNCHANGED <<outcome, lastWait, response, summary,
                                description>>
    /\ pending' = {}
    /\ UNCHANGED <<n, startupVars, storeVars, loop, interval, sent,
                   cycleStart, faults>>

\* tweepy.errors.TooManyRequests: change_interval(minutes=15), sleep(1)
FetchRateLimited ==
    /\ pc = "fetch"
    /\ interval' = COOLDOWN_SECONDS
    /\ pc' = "rl_sleep"
    /\ UNCHANGED <<n, startupVars, storeVars, pending, loop, lastWait, batchVars,
                   sent, cycleStart, outcome, faults>>

\* after the sleep(1): change_interval(seconds=CHECK_INTERVAL_SECONDS), return
RateLimitRevert ==
    /\ pc = "rl_sleep"
    /\ interval' = CHECK_INTERVAL_SECONDS
    /\ Return("ratelimited", interval')
    /\ UNCHANGED <<n, startupVars, storeVars, pending, loop, sent, cycleStart, faults>>

\* any other exception of the fetch: logged, return
FetchError ==
    /\ pc = "fetch"
    /\ Return("fetcherror", interval)
    /\ UNCHANGED <<n, startupVars, storeVars, pending, loop, interval, sent,
                   cycleStart, faults>>

\* summary = await self._summarize_tweet(tweet.text); build the embed
Summarize ==
    /\ pc = "summarize"
    /\ \E resp \in Responses :
          /\ response' = resp
          /\ summary' = summarize_tweet(resp)
          /\ IF summary' \in Returned
                THEN /\ description' = Body(summary')
                     /\ pc' = "send_embed"
                     /\ UNCHANGED <<outcome, loop>>
                ELSE /\ Raise(summary')
                     /\ description' = description
    /\ UNCHANGED <<n, startupVars, storeVars, pending, interval, lastWait,
                   new_tweets, i, sent, cycleStart, faults>>

\* await channel.send(embed=embed); summary and embed are not read again
SendEmbedOk ==
    /\ pc = "send_embed"
    /\ sent' = Append(sent, [id |-> new_tweets[i], kind |-> "embed"])
    /\ response' = "good"
    /\ summary' = "none"
    /\ description' = "text"
    /\ pc' = "send_url"
    /\ UNCHANGED <<n, startupVars, storeVars, pending, loopVars, new_tweets, i,
                   cycleStart, outcome, faults>>

\* a send raises: discord.HTTPException, or a transport error
SendRaise(at, exc) ==
    /\ pc = at
    /\ exc \in valid_exception => faults < MaxFaults
    /\ faults' = IF exc \in valid_exception THEN faults + 1 ELSE faults
    /\ Raise(exc)
    /\ FreshLocals
    /\ UNCHANGED <<n, startupVars, storeVars, pending, interval, lastWait, sent,
                   cycleStart>>

SendEmbedRaise == \E exc \in {"HTTPException", "OSError"} :
                      SendRaise("send_embed", exc)

\* await channel.send(tweet_url)
SendUrlOk ==
    /\ pc = "send_url"
    /\ sent' = Append(sent, [id |-> new_tweets[i], kind |-> "url"])
    /\ pc' = "save"
    /\ UNCHANGED <<n, startupVars, storeVars, pending, loopVars, batchVars,
                   cycleStart, outcome, faults>>

\* variant of SendUrlRaise: the failure of the send is swallowed
SendUrlRaise_swallowed ==
    /\ pc = "send_url"
    /\ pc' = "save"
    /\ UNCHANGED <<n, startupVars, storeVars, pending, loopVars, batchVars, sent,
                   cycleStart, outcome, faults>>

SendUrlRaise == \E exc \in {"HTTPException", "OSError"} :
                    SendRaise("send_url", exc)

\* variant of SaveOk: the file is written, last_tweet_id is not set
SaveOk_file_only ==
    /\ pc = "save"
    /\ file' = Written(Dumps(new_tweets[i]))
    /\ lastSave' = [ok |-> TRUE, id |-> new_tweets[i]]
    /\ lastStored' = new_tweets[i]
    /\ pc' = "post_sleep"
    /\ UNCHANGED <<n, startupVars, last_tweet_id, pending, loopVars,
                   batchVars, sent, cycleStart, outcome, faults>>

\* _save_last_tweet_id succeeds: file written, then last_tweet_id set
SaveOk ==
    /\ pc = "save"
    /\ file' = Written(Dumps(new_tweets[i]))
    /\ last_tweet_id' = new_tweets[i]
    /\ lastSave' = [ok |-> TRUE, id |-> new_tweets[i]]
    /\ lastStored' = new_tweets[i]
    /\ pc' = "post_sleep"
    /\ UNCHANGED <<n, startupVars, pending, loopVars, batchVars, sent, cycleStart,
                   outcome, faults>>

\* variant of SaveIOError: last_tweet_id is set although the write failed
SaveIOError_sets_memory ==
    /\ pc = "save"
    /\ faults < MaxFaults
    /\ faults' = faults + 1
    /\ file' \in {file, EmptyFile, Written(Partial(Dumps(new_tweets[i])))}
    /\ last_tweet_id' = new_tweets[i]
    /\ lastSave' = [ok |-> FALSE, id |-> new_tweets[i]]
    /\ pc' = "post_sleep"
    /\ UNCHANGED <<n, startupVars, lastStored, pending, loopVars,
                   batchVars, sent, cycleStart, outcome>>

\* _save_last_tweet_id: IOError caught.  open() failed (file untouched) or
\* the write failed after open(.., "w") truncated the file (nothing or a
\* part of the text reached the file)
SaveIOError ==
    /\ pc = "save"
    /\ faults < MaxFaults
    /\ faults' = faults + 1
    /\ file' \in {file, EmptyFile, Written(Partial(Dumps(new_tweets[i])))}
    /\ lastSave' = [ok |-> FALSE, id |-> new_tweets[i]]
    /\ pc' = "post_sleep"
    /\ UNCHANGED <<n, startupVars, last_tweet_id, lastStored, pending,
                   loopVars, batchVars, sent, cycleStart, outcome>>

\* asyncio.sleep(1), then the next tweet of the batch or the end
PostSleep ==
    /\ pc = "post_sleep"
    /\ IF i < Len(new_tweets)
          THEN /\ i' = i + 1
               /\ pc' = "summarize"
               /\ UNCHANGED <<outcome, lastWait, new_tweets, response,
                              summary, description>>
          ELSE Return("done", interval)
    /\ UNCHANGED <<n, startupVars, storeVars, pending, loop, interval, sent,
                   cycleStart, faults>>

\* ---- crash and restart ---------------------------------------------------

\* the posts of the batch whose two messages have not both been sent
Undelivered ==
    {new_tweets[k] : k \in {j \in 1..Len(new_tweets) :
        \/ [id |-> new_tweets[j], kind |-> "embed"]
              \notin Range(SubSeq(sent, cycleStart.len + 1, Len(sent)))
        \/ [id |-> new_tweets[j], kind |-> "url"]
              \notin Range(SubSeq(sent, cycleStart.len + 1, Len(sent)))}}

\* the process is dead: nothing of its memory is left
ProcessGone ==
    /\ http_session' = "none"
    /\ closes' = 0
    /\ bot_closed' = FALSE
    /\ attempt' = 0
    /\ wait_time' = 0
    /\ twitter_user_id' = None
    /\ loaded' = FALSE
    /\ last_tweet_id' = None
    /\ loop' = "stopped"
    /\ TaskGone

\* the process is killed while it works on a batch, outside a save
Crash ==
    /\ pc \in {"summarize", "send_embed", "send_url", "post_sleep"}
    /\ faults < MaxFaults
    /\ faults' = faults + 1
    /\ pending' = Undelivered
    /\ ProcessGone
    /\ pc' = "crashed"
    /\ UNCHANGED <<n, file, lastSave, lastStored>>

\* the process is killed inside _save_last_tweet_id: before open(), after
\* open(.., "w") truncated the file, part-way through the write, or after
\* the write and before last_tweet_id is assigned
CrashInSave ==
    /\ pc = "save"
    /\ faults < MaxFaults
    /\ faults' = faults + 1
    /\ \E f \in {file, EmptyFile, Written(Partial(Dumps(new_tweets[i]))),
                  Written(Dumps(new_tweets[i]))} :
          /\ file' = f
          /\ lastSave' = [ok |-> f = Written(Dumps(new_tweets[i])),
                          id |-> new_tweets[i]]
          /\ lastStored' = IF f = Written(Dumps(new_tweets[i]))
                            THEN new_tweets[i] ELSE lastStored
    /\ pending' = Undelivered
    /\ ProcessGone
    /\ pc' = "crashed"
    /\ UNCHANGED n

\* a new process starts (TwitterBot.__init__, TwitterCog.__init__) with the
\* state file and the account as the old process left them
Restart ==
    /\ pc = "crashed"
    /\ pc' = "boot"
    /\ UNCHANGED <<n, startupVars, storeVars, pending, loopVars, batchVars, sent,
                   cycleStart, outcome, faults>>

\* ---- specification ------------------------------------------------------

Next ==
    \/ Publish
    \/ setup_hook
    \/ ResolveOk
    \/ ResolveFail
    \/ ResolveWake
    \/ Halt
    \/ LoadAndStart
    \/ LoadRaise
    \/ cog_unload
    \/ TickNoChannel
    \/ TickChannel
    \/ FetchOk
    \/ FetchRateLimited
    \/ RateLimitRevert
    \/ FetchError
    \/ Summarize
    \/ SendEmbedOk
    \/ SendEmbedRaise
    \/ SendUrlOk
    \/ SendUrlRaise
    \/ SaveOk
    \/ SaveIOError
    \/ PostSleep
    \/ Crash
    \/ CrashInSave
    \/ Restart

Spec == Init /\ [][Next]_vars

TypeOK ==
    /\ pc \in PcValues
    /\ n \in 0..MaxPosts
    /\ last_tweet_id \in 0..MaxPosts
    /\ loop \in {"stopped", "running", "failed"}
    /\ interval \in {CHECK_INTERVAL_SECONDS, COOLDOWN_SECONDS}
    /\ faults \in 0..MaxFaults
    /\ closes \in 0..2
    /\ lastStored \in 0..MaxPosts
    /\ lastSave \in [ok : BOOLEAN, id : 0..MaxPosts]
    /\ pending \subseteq 1..MaxPosts

\* ---- properties ---------------------------------------------------------

\* the messages sent since the running (or latest) cycle started
CycleSent == SubSeq(sent, cycleStart.len + 1, Len(sent))

\* s lists post messages in delivery order: ids ascend, and an id repeats
\* only as the url message that directly follows its embed
Ascending(s) ==
    \A j, k \in 1..Len(s) :
        j < k => \/ s[j].id < s[k].id
                 \/ /\ s[j].id = s[k].id
                    /\ k = j + 1
                    /\ s[j].kind = "embed"
                    /\ s[k].kind = "url"

\* the embed and then the url of post p were sent in the current cycle
DeliveredInCycle(p) ==
    \E j, k \in 1..Len(CycleSent) :
        /\ j < k
        /\ CycleSent[j] = [id |-> p, kind |-> "embed"]
        /\ CycleSent[k] = [id |-> p, kind |-> "url"]

\* C1 (as claimed): at-least-once delivery.  A post above the watermark is
\* fetched only while it stays above the watermark, so it is delivered at
\* least once only if the watermark never moves past it while it is still
\* undelivered.
C1_AtLeastOnce ==
    [][\A p \in 1..n :
          (last_tweet_id # None /\ p > last_tweet_id /\ ~Delivered(p))
              => (p > last_tweet_id' \/ Delivered(p)')]_vars

\* C2 (as claimed): over the whole run of the process the post identifiers
\* sent to the channel are strictly ascending.
C2_RunAscending == Ascending(sent)

\* C2 (amended): within one check_tweets cycle the post identifiers sent to
\* the channel are strictly ascending, whatever the order of the fetch
\* result and whatever the summarize, send and save outcomes.
C2_CycleAscending == Ascending(CycleSent)

C2_Witness ==
    /\ outcome = "done"
    /\ Len(CycleSent) >= 4
    /\ faults > 0

\* C3: a step that sets the watermark, in memory or in the state file, to
\* a post id happens only after the embed and then the url of that post
\* were sent in this cycle.
C3_WatermarkAfterDelivery ==
    [][/\ (pc # "load" /\ last_tweet_id' # last_tweet_id
               /\ last_tweet_id' # None)
            => DeliveredInCycle(last_tweet_id')
       /\ (file' # file /\ HoldsWatermark(file'))
            => DeliveredInCycle(load_last_tweet_id(file'))]_vars

C3_Witness ==
    /\ pc = "post_sleep"
    /\ last_tweet_id = new_tweets[i]
    /\ file = Written(Dumps(new_tweets[i]))
    /\ i >= 2

\* C4 (as claimed): every value that a save writes as the watermark is
\* strictly greater than the previous non-absent watermark, i.e. than the
\* value the latest earlier successful save wrote.  A save that leaves the
\* file truncated makes the next process start from no watermark and write
\* the ids of the old posts again (see C12).
C4_WatermarkIncreases ==
    [][(pc = "save" /\ lastSave'.ok)
          => (lastStored = None \/ lastStored' > lastStored)]_vars

C6_EarlyExitNoEffect ==
    (outcome \in {"nochannel", "ratelimited", "fetcherror"} \/ pc = "rl_sleep")
        => /\ CycleSent = <<>>
           /\ last_tweet_id = cycleStart.wm
           /\ file = cycleStart.file

C6_Witness ==
    /\ outcome \in {"nochannel", "ratelimited", "fetcherror"}
    /\ pc = "idle"
    /\ last_tweet_id # None
    /\ n > last_tweet_id

\* C7 (as claimed): after a rate-limited cycle the task waits for the
\* 900 s cooldown before the next cycle.
C7_CooldownWait ==
    (pc = "idle" /\ outcome = "ratelimited") => lastWait = COOLDOWN_SECONDS

\* C8 (as claimed): whatever way the summarizer fails, _summarize_tweet
\* returns None and the cycle goes on to deliver the post.
SummarizerFailures == {"status500", "ClientError", "TimeoutError",
                       "incomplete"}

C8_SummarizeFailureIsNone ==
    response \in SummarizerFailures
        => summary = "none" /\ pc = "send_embed"

\* C9 (as claimed): once the loop has been started no cycle outcome stops
\* it.
C9_LoopNeverStops ==
    (loaded /\ pc \notin {"unloaded", "crashed"}) => loop = "running"

\* C10: the loop is started only after a successful identity resolution
\* and the load of the watermark; after max_retries failed attempts the
\* loop is not started, the session is closed and the bot is closed.
C10_StartOnlyAfterResolve ==
    /\ loop # "stopped" => twitter_user_id # None /\ loaded
    /\ pc = "halted" => /\ attempt = max_retries
                        /\ twitter_user_id = None
                        /\ loop = "stopped"
                        /\ http_session = "closed"
                        /\ bot_closed

C10_Witness == pc = "halted"

\* C11 (as claimed): the session created in setup_hook is closed exactly
\* once on every terminating path: it is never closed twice, and when the
\* process has ended through cog_unload or through a fatal failure of
\* cog_load the session has been closed.
C11_SessionClosedOnce ==
    /\ closes <= 1
    /\ pc \in {"halted", "unloaded", "load_failed"}
         => (closes = 1 /\ http_session = "closed")

\* C12 (as claimed): saving is atomic: whatever happens while
\* _save_last_tweet_id runs (it succeeds, the write fails, the process is
\* killed), a load of the state file afterwards returns the value that was
\* persisted before the save or the new value.
C12_SaveAtomic ==
    [][pc = "save"
          => /\ ~load_raises(file')
             /\ load_last_tweet_id(file')
                   \in {load_last_tweet_id(file), new_tweets[i]}]_vars

\* C13 (as claimed): whatever the state file is (missing, unreadable,
\* invalid JSON, JSON that is not an object), the load step of cog_load
\* does not raise, startup goes on to start the loop, and a file that is
\* not a JSON object gives the watermark None.
C13_CorruptLoadsAbsent ==
    [][pc = "load"
          => /\ pc' # "load_failed"
             /\ (file.st # "file" \/ Loads(file.text).kind # "object")
                   => (pc' = "idle" /\ last_tweet_id' = None)]_vars

\* C14: round trip of the watermark store.  The text that
\* _save_last_tweet_id writes for an identifier V is read back as V by
\* _load_last_tweet_id; a load that follows a successful save of V, with
\* no save in between, sets the watermark to V; and a load when no state
\* file exists gives None and does not raise.
C14_RoundTrip ==
    [][pc = "load"
          => /\ \A v \in 1..MaxId :
                   /\ ~load_raises(Written(Dumps(v)))
                   /\ load_last_tweet_id(Written(Dumps(v))) = v
             /\ lastSave.ok
                   => (pc' = "idle" /\ last_tweet_id' = lastSave.id)
             /\ file = MissingFile
                   => (pc' = "idle" /\ last_tweet_id' = None)]_vars

\* a restarted process has loaded what the process before it saved last
C14_Witness ==
    /\ pc = "idle"
    /\ loaded
    /\ outcome = "none"
    /\ lastSave.ok
    /\ lastSave.id >= 2
    /\ last_tweet_id = lastSave.id

\* the messages that deliver the posts of a batch, in the order of the
\* batch: the embed and then the url of each post
Deliveries(batch) ==
    [k \in 1..(2 * Len(batch)) |->
        [id |-> batch[(k + 1) \div 2],
         kind |-> IF k % 2 = 1 THEN "embed" ELSE "url"]]

\* C15: a cycle that starts with no watermark and in which no step fails
\* has, when its last post is done, sent the embed and the url of every
\* fetched post exactly once, in ascending order of id, and has set
\* last_tweet_id and the state file to the largest fetched id.
C15_FullCycle ==
    (/\ pc = "post_sleep"
     /\ i = Len(new_tweets)
     /\ cycleStart.wm = None
     /\ faults = cycleStart.faults)
        => /\ Range(new_tweets) = get_users_tweets(None, n)
           /\ \A j, k \in 1..Len(new_tweets) :
                  j < k => new_tweets[j] < new_tweets[k]
           /\ CycleSent = Deliveries(new_tweets)
           /\ last_tweet_id = new_tweets[Len(new_tweets)]
           /\ file = Written(Dumps(new_tweets[Len(new_tweets)]))

\* no watermark, fetch of posts 1, 2, 3: deliveries 1, 2, 3, watermark 3
C15_Witness ==
    /\ pc = "post_sleep"
    /\ cycleStart.wm = None
    /\ faults = cycleStart.faults
    /\ new_tweets = <<1, 2, 3>>
    /\ i = 3
    /\ CycleSent = Deliveries(<<1, 2, 3>>)
    /\ last_tweet_id = 3

\* C16: the body of the embed that is about to be sent is the summary
\* when _summarize_tweet returned a non-empty text and the text of the
\* post when it returned None; it is never empty.
C16_BodyFallback ==
    pc = "send_embed"
        => /\ summary = "ok" => description = "summary"
           /\ summary = "none" => description = "text"
           /\ description \in {"summary", "text"}

\* the summarizer answered with status 500 or with a blank content
C16_Witness ==
    /\ pc = "send_embed"
    /\ response \in {"status500", "blank"}
    /\ description = "text"

\* the id of the post delivered last by this process: the url message is
\* the second of the two messages of a post
LastDelivered ==
    LET urls == {k \in 1..Len(sent) : sent[k].kind = "url"}
    IN sent[CHOOSE k \in urls : \A j \in urls : j <= k].id

\* a run of the body has ended and this process has delivered a post
CycleEnded ==
    /\ pc \in {"idle", "backoff", "failed"}
    /\ \E k \in 1..Len(sent) : sent[k].kind = "url"

\* C17 (as claimed): at the end of every cycle last_tweet_id is the id of
\* the post delivered last by this process, whatever the save step did.
C17_WatermarkIsLastDelivered ==
    CycleEnded => last_tweet_id = LastDelivered

\* C17 (amended): at the end of every cycle last_tweet_id is the id of the
\* post delivered last by this process if the save that followed that
\* delivery succeeded; if that save failed, last_tweet_id is None or the
\* id of a post delivered before it.
C17_WatermarkIsLastSaved ==
    CycleEnded
        => IF lastSave.ok
             THEN last_tweet_id = LastDelivered
             ELSE /\ lastSave.id = LastDelivered
                  /\ last_tweet_id = None \/ last_tweet_id < LastDelivered

\* a cycle of two posts has ended after the save of the second failed
C17_Witness ==
    /\ pc = "idle"
    /\ outcome = "done"
    /\ ~lastSave.ok
    /\ LastDelivered = 2
    /\ last_tweet_id = 1

\* C18 (as claimed): after a crash in a batch and a restart, the watermark
\* that the new process loads is None or below every post of that batch
\* that was not fully delivered, and the first fetch of the new process
\* returns every such post, so none of them is skipped.
C18_NoSkipAfterCrash ==
    [][/\ (pc = "load" /\ pc' = "idle")
            => \A p \in pending :
                  last_tweet_id' = None \/ last_tweet_id' < p
       /\ (pc = "fetch" /\ pending # {} /\ pending' = {})
            => pending \subseteq Range(new_tweets')]_vars

\* C19: when the write of a save fails, the body goes on with the batch,
\* the loop keeps running and last_tweet_id keeps its value; outside the
\* load of cog_load, last_tweet_id is set to an id only by a step that
\* has written the state file with that id.
C19_FailedSaveKeepsWatermark ==
    [][/\ (pc = "save" /\ ~lastSave'.ok /\ pc' # "crashed")
            => /\ last_tweet_id' = last_tweet_id
               /\ pc' = "post_sleep"
               /\ loop' = "running"
               /\ UNCHANGED <<new_tweets, i, bot_closed>>
       /\ (pc # "load" /\ last_tweet_id' # last_tweet_id
               /\ last_tweet_id' # None)
            => /\ lastSave'.ok
               /\ file' = Written(Dumps(last_tweet_id'))]_vars

\* the save of the first post of a batch has failed and the batch goes on
C19_Witness ==
    /\ pc = "summarize"
    /\ i = 2
    /\ ~lastSave.ok
    /\ lastSave.id = new_tweets[1]
    /\ last_tweet_id = cycleStart.wm
    /\ loop = "running"

\* C20 (as claimed): cog_load makes at most max_retries attempts; after
\* failed attempt k it waits 60 * 2^k seconds, and when the wait is over a
\* further resolution attempt is made.
C20_WaitThenRetry ==
    [][pc = "resolve_sleep"
          => /\ attempt \in 0..(max_retries - 1)
             /\ wait_time = 60 * (2 ^ attempt)
             /\ pc' = "resolve" => attempt' < max_retries]_vars

====
